---- MODULE Spec2Model ----
(***************************************************************************)
(* Model of the TrafficTelligence repository:                              *)
(*   - the training script ("traffic volume.csv", a Python script): CSV    *)
(*     load, timestamp parsing, feature engineering, train/test split,     *)
(*     ColumnTransformer + RandomForestRegressor pipeline fit, evaluation, *)
(*     joblib.dump, and the TrafficVolumePredictor class;                  *)
(*   - the IBM deployment notebook: artifact preparation and the scoring   *)
(*     request.                                                            *)
(* Reals are fixed point: temperatures in tenths of a degree, standardized *)
(* values, tree leaves and regression outputs in hundredths.               *)
(***************************************************************************)
EXTENDS Integers, Sequences, FiniteSets, TLC

VARIABLES
    prog,        \* which program runs: "script" or "notebook"
    pc,          \* position of the running program
    df,          \* the DataFrame read from traffic_volume.csv (sequence of rows)
    X_train,     \* training rows after train_test_split
    X_test,      \* held-out rows after train_test_split
    model,       \* the sklearn Pipeline object of the script
    fs,          \* artifact files written by this run: path -> content
    predictor,   \* the TrafficVolumePredictor instance
    inputs,      \* argument of the last call, when it was predict
    X,           \* preprocessor output in that predict call
    raw,         \* regressor output in that predict call (hundredths)
    prediction,  \* value that predict call returned
    error,       \* exception raised by the last step, or NoError
    importance,  \* value returned by the last call, when it was
                 \* get_feature_importance
    nb           \* notebook state: loaded components, packaged files, request

vars == <<prog, pc, df, X_train, X_test, model, fs, predictor, inputs, X, raw,
          prediction, error, importance, nb>>

----------------------------------------------------------------------------
(* Bounds *)

MaxRows == 3       \* most rows of traffic_volume.csv
YearSpan == 1      \* years of timestamps explored by the derivation check

----------------------------------------------------------------------------
(* Sentinels *)

NaN == -1          \* a missing numeric cell (df.isnull())
NoError == "none"

Max(a, b) == IF a >= b THEN a ELSE b
Min(a, b) == IF a <= b THEN a ELSE b

RECURSIVE SumSeq(_)
SumSeq(s) == IF s = <<>> THEN 0 ELSE Head(s) + SumSeq(Tail(s))

RECURSIVE Concat(_)
Concat(ss) == IF ss = <<>> THEN <<>> ELSE Head(ss) \o Concat(Tail(ss))

----------------------------------------------------------------------------
(* pd.to_datetime and the .dt accessors.  A date_time cell is the tuple      *)
(* <<year, month, day, hour>> of the text "Y-M-D H:00:00".                   *)

IsLeap(y) == (y % 4 = 0 /\ y % 100 # 0) \/ y % 400 = 0

DaysInMonth(y, m) ==
    IF m = 2 THEN (IF IsLeap(y) THEN 29 ELSE 28)
    ELSE IF m \in {4, 6, 9, 11} THEN 30 ELSE 31

\* pd.to_datetime raises on a cell that is no calendar date-time
Parseable(t) ==
    /\ t[2] \in 1..12
    /\ t[3] >= 1 /\ t[3] <= DaysInMonth(t[1], t[2])
    /\ t[4] \in 0..23

ToDatetime(t) == [year |-> t[1], month |-> t[2], day |-> t[3], hour |-> t[4]]

\* Series.dt.dayofweek: Monday = 0 .. Sunday = 6
DayOfWeek(ts) ==
    LET t == <<0, 3, 2, 5, 0, 3, 5, 1, 4, 6, 2, 4>>
        y == IF ts.month < 3 THEN ts.year - 1 ELSE ts.year
        sunday0 == (y + (y \div 4) - (y \div 100) + (y \div 400)
                    + t[ts.month] + ts.day) % 7
    IN (sunday0 + 6) % 7

\* (variant: x > 5, Saturday missed)
IsWeekendOffByOne(x) == IF x > 5 THEN 1 ELSE 0
\* lambda x: 1 if x >= 5 else 0
IsWeekend(x) == IF x >= 5 THEN 1 ELSE 0

\* lambda x: 1 if (7 <= x <= 9) or (16 <= x <= 18) else 0
IsRushHour(x) == IF (7 <= x /\ x <= 9) \/ (16 <= x /\ x <= 18) THEN 1 ELSE 0

\* the feature-engineering block applied to one row with a parsed date_time
Derive(row) ==
    LET hour == row.date_time.hour
        dow  == DayOfWeek(row.date_time)
    IN [holiday |-> row.holiday, temp |-> row.temp, rain_1h |-> row.rain_1h,
        snow_1h |-> row.snow_1h, clouds_all |-> row.clouds_all,
        weather_main |-> row.weather_main, date_time |-> row.date_time,
        traffic_volume |-> row.traffic_volume,
        hour |-> hour, day_of_week |-> dow, month |-> row.date_time.month,
        is_weekend |-> IsWeekend(dow), is_rush_hour |-> IsRushHour(hour)]

----------------------------------------------------------------------------
(* Features, target and train_test_split *)

\* columns of `features`
FeatureKeys == {"holiday", "temp", "rain_1h", "snow_1h", "weather_main",
                "month", "hour", "day_of_week", "is_weekend", "is_rush_hour"}

Features(row) == [k \in FeatureKeys |-> row[k]]

\* test_size=0.2: n_test = ceil(0.2 * n), n_train = n - n_test
NTest(n) == (n + 4) \div 5

\* the rows of s whose positions are not in drop, in order
RECURSIVE Without(_, _, _)
Without(s, drop, i) ==
    IF i > Len(s) THEN <<>>
    ELSE (IF i \in drop THEN <<>> ELSE <<s[i]>>) \o Without(s, drop, i + 1)

----------------------------------------------------------------------------
(* Preprocessing pipeline: ColumnTransformer(StandardScaler, OneHotEncoder)  *)

numeric_features == <<"temp", "rain_1h", "snow_1h">>
categorical_features == <<"holiday", "weather_main", "month", "hour", "day_of_week">>

HasNaN(row) == \E i \in 1..Len(numeric_features) : row[numeric_features[i]] = NaN

\* lexicographic order of the text categories (np.unique sorts categories_)
Alphabetical == <<"Christmas", "Clear", "Clouds", "None", "Rain", "Snow">>
SortKey(f, v) ==
    IF f \in {"holiday", "weather_main"}
    THEN CHOOSE i \in 1..Len(Alphabetical) : Alphabetical[i] = v
    ELSE v

RECURSIVE SortedCategories(_, _)
SortedCategories(f, S) ==
    IF S = {} THEN <<>>
    ELSE LET m == CHOOSE v \in S : \A w \in S : SortKey(f, v) <= SortKey(f, w)
         IN <<m>> \o SortedCategories(f, S \ {m})

Isqrt(v) == CHOOSE r \in 0..v : r * r <= v /\ v < (r + 1) * (r + 1)

\* StandardScaler.fit on one column: mean_ and scale_ (zero scale becomes 1)
ScalerFit(rows, f) ==
    LET n    == Len(rows)
        mean == SumSeq([i \in 1..n |-> rows[i][f]]) \div n
        var  == SumSeq([i \in 1..n |-> (rows[i][f] - mean) * (rows[i][f] - mean)]) \div n
        sd   == Isqrt(var)
    IN [mean_ |-> mean, scale_ |-> IF sd = 0 THEN 1 ELSE sd]

\* preprocessor.fit: per numeric column (mean_, scale_), per categorical
\* column the sorted distinct values seen
PreprocessorFit(rows) ==
    [scaler |-> [f \in {numeric_features[i] : i \in 1..Len(numeric_features)}
                    |-> ScalerFit(rows, f)],
     categories_ |-> [f \in {categorical_features[i] : i \in 1..Len(categorical_features)}
                    |-> SortedCategories(f, {rows[i][f] : i \in 1..Len(rows)})]]

\* StandardScaler.transform of one value, in hundredths
Standardize(sc, v) == ((v - sc.mean_) * 100) \div sc.scale_

\* (variant: an unknown value lands in the last column, as with
\* handle_unknown='infrequent_if_exist')
OneHotInfrequent(cats, v) ==
    [i \in 1..Len(cats) |->
        IF cats[i] = v \/ (i = Len(cats) /\ \A j \in 1..Len(cats) : cats[j] # v)
        THEN 1 ELSE 0]
\* OneHotEncoder(handle_unknown='ignore').transform of one value
OneHot(cats, v) == [i \in 1..Len(cats) |-> IF cats[i] = v THEN 1 ELSE 0]

\* (variant: remainder='passthrough')
RemainderPassthrough(row) == <<row.is_weekend, row.is_rush_hour>>
\* ColumnTransformer remainder='drop' (the default): the columns named in no
\* transformer, is_weekend and is_rush_hour, are left out
Remainder(row) == <<>>

\* preprocessor.transform of one row
Transform(pre, row) ==
    [i \in 1..Len(numeric_features) |->
        Standardize(pre.scaler[numeric_features[i]], row[numeric_features[i]])]
    \o Concat([i \in 1..Len(categorical_features) |->
        OneHot(pre.categories_[categorical_features[i]], row[categorical_features[i]])])
    \o Remainder(row)

----------------------------------------------------------------------------
(* Regressor: RandomForestRegressor, as a forest of decision stumps          *)

TreePredict(tree, x) ==
    IF x[tree.feature] <= tree.threshold THEN tree.left ELSE tree.right

\* the forest's prediction is the mean of its trees' predictions
ForestPredict(reg, x) ==
    SumSeq([i \in 1..Len(reg.trees) |-> TreePredict(reg.trees[i], x)])
        \div Len(reg.trees)

\* feature_importances_: each feature's share of the total split gain, per mille
FeatureImportances(trees, dim) ==
    LET gain(i) == SumSeq([t \in 1..Len(trees) |->
                        IF trees[t].feature = i THEN trees[t].gain ELSE 0])
        total == SumSeq([t \in 1..Len(trees) |-> trees[t].gain])
    IN [i \in 1..dim |-> (1000 * gain(i)) \div total]

\* RandomForestRegressor.fit: the fitted forest depends on the data and the
\* seeded resampling; it is one of a pool of forests over the dim columns
LeafPairs == {<<-650, 275>>, <<275, 1200>>}
SplitFeatures(dim) == {1, 4, dim}
ForestPool(dim) ==
    {<<[feature |-> f, threshold |-> 0, left |-> l[1], right |-> l[2], gain |-> 2],
       [feature |-> dim, threshold |-> 0, left |-> l[2], right |-> l[1], gain |-> 2]>> :
        f \in SplitFeatures(dim), l \in LeafPairs}

Regressor(trees, dim) ==
    [n_features_in_ |-> dim, trees |-> trees,
     feature_importances_ |-> FeatureImportances(trees, dim)]

----------------------------------------------------------------------------
(* TrafficVolumePredictor *)

\* round(v) of a value in hundredths: nearest integer, halves to even
IntRound(v) ==
    LET q == v \div 100
        r == v - 100 * q
    IN IF r < 50 THEN q ELSE IF r > 50 THEN q + 1 ELSE IF q % 2 = 0 THEN q ELSE q + 1
\* int(prediction): truncation toward zero of a value in hundredths
IntTrunc(v) == IF v >= 0 THEN v \div 100 ELSE -((-v) \div 100)

\* (variant: no max(0, ...))
ClampUnguarded(v) == IntTrunc(v)
\* max(0, int(prediction))
Clamp(v) == Max(0, IntTrunc(v))

\* TrafficVolumePredictor.predict on a loaded pipeline m: the transformed
\* row, the regressor's output, the returned value, and the exception raised
\* (the regressor checks the width of its input against n_features_in_)
PredictResult(m, inp) ==
    LET x == Transform(m.preprocessor, inp)
    IN IF Len(x) # m.regressor.n_features_in_
       THEN [X |-> x, raw |-> 0, prediction |-> 0, error |-> "ValueError"]
       ELSE LET v == ForestPredict(m.regressor, x)
            IN [X |-> x, raw |-> v, prediction |-> Clamp(v), error |-> NoError]

\* numeric_features + list(ohe.get_feature_names_out(categorical_features)):
\* a name is <<column, k>>, k the position of the category in the column's
\* categories_ (0 for a numeric column)
AllFeatureNames(m) ==
    [i \in 1..Len(numeric_features) |-> <<numeric_features[i], 0>>]
    \o Concat([i \in 1..Len(categorical_features) |->
        [k \in 1..Len(m.preprocessor.categories_[categorical_features[i]])
            |-> <<categorical_features[i], k>>]])

\* Series.sort_values(ascending=False) with the default kind ('quicksort'):
\* descending by score; the order among equal scores is not defined by the
\* sort and is given here by tie, a ranking of the positions
\* (variant: ascending=True)
RECURSIVE SortValuesAscending(_, _, _)
SortValuesAscending(series, tie, left) ==
    IF left = {} THEN <<>>
    ELSE LET best == CHOOSE i \in left : \A j \in left :
                        \/ series[i].score < series[j].score
                        \/ series[i].score = series[j].score /\ tie[i] <= tie[j]
         IN <<series[best]>> \o SortValuesAscending(series, tie, left \ {best})
RECURSIVE SortValues(_, _, _)
SortValues(series, tie, left) ==
    IF left = {} THEN <<>>
    ELSE LET best == CHOOSE i \in left : \A j \in left :
                        \/ series[i].score > series[j].score
                        \/ series[i].score = series[j].score /\ tie[i] <= tie[j]
         IN <<series[best]>> \o SortValues(series, tie, left \ {best})

\* orders of equal scores a sort may produce: rotations of the positions,
\* forwards and backwards (k = 0 forwards is the stable order)
TieOrders(n) ==
    {[i \in 1..n |-> (i - 1 + k) % n] : k \in 0..(n - 1)}
    \cup {[i \in 1..n |-> (n - i + k) % n] : k \in 0..(n - 1)}

TopK == 10

\* Series.head(TopK)
SeriesHead(s) == SubSeq(s, 1, Min(TopK, Len(s)))

----------------------------------------------------------------------------
(* Inputs *)

Row(holiday, temp, rain, snow, clouds, weather, t, volume) ==
    [holiday |-> holiday, temp |-> temp, rain_1h |-> rain, snow_1h |-> snow,
     clouds_all |-> clouds, weather_main |-> weather, date_time |-> t,
     traffic_volume |-> volume]

\* rows traffic_volume.csv may hold: three clean observations, one with a
\* date_time that is no date, one with a missing temp
RowPool ==
    << Row("None", 2882, 0, 0, 40, "Clouds", <<2012, 10, 3, 9>>, 5545),
       Row("None", 2950, 5, 0, 90, "Rain", <<2013, 6, 15, 17>>, 4000),
       Row("Christmas", 2650, 0, 2, 90, "Snow", <<2012, 12, 25, 0>>, 800),
       Row("None", 2800, 0, 0, 40, "Clouds", <<2012, 13, 45, 9>>, 3000),
       Row("None", NaN, 0, 0, 40, "Clouds", <<2012, 10, 4, 12>>, 5000) >>

\* the CSV files explored: the sub-sequences of RowPool of 1..MaxRows rows
Datasets ==
    {Without(RowPool, (1..Len(RowPool)) \ keep, 1) :
        keep \in {S \in SUBSET (1..Len(RowPool)) :
                    Cardinality(S) >= 1 /\ Cardinality(S) <= MaxRows}}

\* the records passed to predict (the script's example input among them)
InputSpace ==
    {[holiday |-> ho, temp |-> te, rain_1h |-> 0, snow_1h |-> 0,
      weather_main |-> we, month |-> 6, hour |-> 17, day_of_week |-> d,
      is_weekend |-> w, is_rush_hour |-> r] :
        ho \in {"None", "Christmas"}, te \in {225, 2900}, we \in {"Clouds", "Rain"},
        d \in {2, 5}, w \in {0, 1}, r \in {0, 1}}

\* the timestamps explored by the derivation specification
Timestamps ==
    {<<y, m, d, h>> : y \in 2012..(2012 + YearSpan - 1), m \in 1..12,
                      d \in 1..31, h \in 0..23}

ModelPath == "traffic_volume_model.pkl"
Unfitted == [fitted |-> FALSE]
NoFile == [exists |-> FALSE]
NoPredictor == [loaded |-> FALSE]
NoInput == [given |-> FALSE]
NotebookIdle == [running |-> FALSE]

----------------------------------------------------------------------------
(* The training script *)

ScriptState(d) ==
    /\ prog = "script"
    /\ pc = "to_datetime"
    /\ df = d
    /\ X_train = <<>>
    /\ X_test = <<>>
    /\ model = Unfitted
    /\ fs = [p \in {ModelPath} |-> NoFile]
    /\ predictor = NoPredictor
    /\ inputs = NoInput
    /\ X = <<>>
    /\ raw = 0
    /\ prediction = 0
    /\ error = NoError
    /\ importance = <<>>
    /\ nb = NotebookIdle

\* df = pd.read_csv('traffic_volume.csv')
InitScript == \E d \in Datasets : ScriptState(d)

Abort(e) == error' = e /\ pc' = "aborted"

\* df['date_time'] = pd.to_datetime(df['date_time'])
ParseDates ==
    /\ prog = "script" /\ pc = "to_datetime"
    /\ IF \A i \in 1..Len(df) : Parseable(df[i].date_time)
       THEN /\ df' = [i \in 1..Len(df) |->
                        [df[i] EXCEPT !.date_time = ToDatetime(df[i].date_time)]]
            /\ pc' = "features"
            /\ error' = error
       ELSE Abort("ParserError") /\ df' = df
    /\ UNCHANGED <<prog, X_train, X_test, model, fs, predictor, inputs, X, raw,
                   prediction, importance, nb>>

\* df['hour'] = ...; ...; df['is_rush_hour'] = ...
FeatureEngineering ==
    /\ prog = "script" /\ pc = "features"
    /\ df' = [i \in 1..Len(df) |-> Derive(df[i])]
    /\ pc' = "split"
    /\ UNCHANGED <<prog, X_train, X_test, model, fs, predictor, inputs, X, raw,
                   prediction, error, importance, nb>>

\* features = df[[...]]; train_test_split(features, target, test_size=0.2,
\* random_state=42).  The seeded shuffle fixes which rows are held out; the
\* model explores every choice of NTest(n) rows.
TrainTestSplit ==
    /\ prog = "script" /\ pc = "split"
    /\ LET n == Len(df)
           feats == [i \in 1..n |-> Features(df[i])]
       IN IF n - NTest(n) = 0
          THEN Abort("ValueError") /\ UNCHANGED <<X_train, X_test>>
          ELSE \E test \in {S \in SUBSET (1..n) : Cardinality(S) = NTest(n)} :
                /\ X_test' = Without(feats, (1..n) \ test, 1)
                /\ X_train' = Without(feats, test, 1)
                /\ pc' = "fit"
                /\ error' = error
    /\ UNCHANGED <<prog, df, model, fs, predictor, inputs, X, raw, prediction,
                   importance, nb>>

\* model.fit(X_train, y_train): the regressor rejects NaN; otherwise the
\* preprocessor is fitted, X_train transformed and the forest fitted on it
ModelFit ==
    /\ prog = "script" /\ pc = "fit"
    /\ IF \E i \in 1..Len(X_train) : HasNaN(X_train[i])
       THEN Abort("ValueError") /\ model' = model
       ELSE LET pre == PreprocessorFit(X_train)
                dim == Len(Transform(pre, X_train[1]))
            IN \E trees \in ForestPool(dim) :
                /\ model' = [fitted |-> TRUE, preprocessor |-> pre,
                             regressor |-> Regressor(trees, dim)]
                /\ pc' = "evaluate"
                /\ error' = error
    /\ UNCHANGED <<prog, df, X_train, X_test, fs, predictor, inputs, X, raw,
                   prediction, importance, nb>>

\* (variant: the evaluation's exception is caught and the script goes on)
EvaluateSwallowed ==
    /\ prog = "script" /\ pc = "evaluate"
    /\ pc' = "dump"
    /\ error' = IF \E i \in 1..Len(X_test) : HasNaN(X_test[i])
                THEN "ValueError" ELSE error
    /\ UNCHANGED <<prog, df, X_train, X_test, model, fs, predictor, inputs, X,
                   raw, prediction, importance, nb>>
\* y_pred = model.predict(X_test); mse, rmse, r2 (printed only)
Evaluate ==
    /\ prog = "script" /\ pc = "evaluate"
    /\ IF \E i \in 1..Len(X_test) : HasNaN(X_test[i])
       THEN Abort("ValueError")
       ELSE pc' = "dump" /\ error' = error
    /\ UNCHANGED <<prog, df, X_train, X_test, model, fs, predictor, inputs, X,
                   raw, prediction, importance, nb>>

\* joblib.dump(model, 'traffic_volume_model.pkl')
Dump ==
    /\ prog = "script" /\ pc = "dump"
    /\ fs' = [fs EXCEPT ![ModelPath] = [exists |-> TRUE, content |-> model]]
    /\ pc' = "main"
    /\ UNCHANGED <<prog, df, X_train, X_test, model, predictor, inputs, X, raw,
                   prediction, error, importance, nb>>

\* predictor = TrafficVolumePredictor('traffic_volume_model.pkl')
PredictorInit ==
    /\ prog = "script" /\ pc = "main"
    /\ IF fs[ModelPath].exists
       THEN /\ predictor' = [loaded |-> TRUE, model |-> fs[ModelPath].content]
            /\ pc' = "serve"
            /\ error' = error
       ELSE /\ predictor' = predictor
            /\ pc' = "crashed"
            /\ error' = "FileNotFoundError"
    /\ UNCHANGED <<prog, df, X_train, X_test, model, fs, inputs, X, raw,
                   prediction, importance, nb>>

\* (variant: the call refits the preprocessor on its input)
PredictRefit(inp) ==
    /\ prog = "script" /\ pc = "serve"
    /\ \E res \in {PredictResult(predictor.model, inp)} :
          /\ inputs' = inp
          /\ X' = res.X
          /\ raw' = res.raw
          /\ prediction' = res.prediction
          /\ error' = res.error
          /\ pc' = IF res.error = NoError THEN "serve" ELSE "crashed"
    /\ importance' = <<>>
    /\ predictor' = [predictor EXCEPT !.model.preprocessor =
                        PreprocessorFit(<<inp>>)]
    /\ UNCHANGED <<prog, df, X_train, X_test, model, fs, nb>>
\* predictor.predict(inputs)
Predict(inp) ==
    /\ prog = "script" /\ pc = "serve"
    /\ \E res \in {PredictResult(predictor.model, inp)} :
          /\ inputs' = inp
          /\ X' = res.X
          /\ raw' = res.raw
          /\ prediction' = res.prediction
          /\ error' = res.error
          /\ pc' = IF res.error = NoError THEN "serve" ELSE "crashed"
    /\ importance' = <<>>
    /\ UNCHANGED <<prog, df, X_train, X_test, model, fs, predictor, nb>>

\* predictor.get_feature_importance()
GetFeatureImportance ==
    /\ prog = "script" /\ pc = "serve"
    /\ \E names \in {AllFeatureNames(predictor.model)} :
       LET imps == predictor.model.regressor.feature_importances_
           n == Len(names)
       IN IF n # Len(imps)
          THEN /\ error' = "ValueError" /\ pc' = "crashed"
               /\ importance' = <<>>
          ELSE \E sorted \in {SortValues(
                        [i \in 1..n |-> [name |-> names[i], score |-> imps[i]]],
                        tie, 1..n) : tie \in TieOrders(n)} :
                /\ importance' = SeriesHead(sorted)
                /\ error' = NoError
                /\ pc' = pc
    /\ inputs' = NoInput /\ X' = <<>> /\ raw' = 0 /\ prediction' = 0
    /\ UNCHANGED <<prog, df, X_train, X_test, model, fs, predictor, nb>>

----------------------------------------------------------------------------
(* The deployment notebook *)

\* what ../../Flask/model.pkl, encoder.pkl and scaler.pkl may hold: no code
\* of the repository writes them, so the three files are independent inputs
PoolFeatures(keep) ==
    LET rows == Without(RowPool, (1..Len(RowPool)) \ keep, 1)
    IN [i \in 1..Len(rows) |->
            Features(Derive([rows[i] EXCEPT !.date_time = ToDatetime(rows[i].date_time)]))]
FlaskPreprocessors == {PreprocessorFit(PoolFeatures(keep)) : keep \in {{1}, {2, 3}}}
FlaskWidth(categories) ==
    Len(numeric_features)
    + SumSeq([i \in 1..Len(categorical_features) |->
                Len(categories[categorical_features[i]])])
FlaskModels ==
    UNION {{Regressor(trees, FlaskWidth(pre.categories_)) :
                trees \in ForestPool(FlaskWidth(pre.categories_))} :
            pre \in FlaskPreprocessors}
FlaskFiles ==
    {[model |-> m, encoder |-> e.categories_, scaler |-> sc.scaler] :
        m \in FlaskModels, e \in FlaskPreprocessors, sc \in FlaskPreprocessors}

\* the sample payload of "Test Deployment"
PayloadFields ==
    <<"hour", "temperature", "humidity", "wind_speed",
      "is_holiday", "is_weekend", "road_type", "near_intersection">>
PayloadValues ==
    << <<17, 225, 65, 102, 0, 0, "highway", "yes">>,
       <<10, 183, 45, 55, 0, 1, "arterial", "no">>,
       <<2, 121, 85, 150, 0, 0, "residential", "no">> >>
Payload == [fields |-> PayloadFields, values |-> PayloadValues]

InitNotebook ==
    /\ prog = "notebook"
    /\ pc = "prepare"
    /\ df = <<>>
    /\ X_train = <<>>
    /\ X_test = <<>>
    /\ model = Unfitted
    /\ fs = [p \in {ModelPath} |-> NoFile]
    /\ predictor = NoPredictor
    /\ inputs = NoInput
    /\ X = <<>>
    /\ raw = 0
    /\ prediction = 0
    /\ error = NoError
    /\ importance = <<>>
    /\ \E files \in FlaskFiles :
        nb = [running |-> TRUE, flask |-> files, packaged |-> FALSE,
              deployed |-> FALSE, requested |-> FALSE]

\* "4. Prepare Model Artifacts": joblib.load of the three components,
\* joblib.dump into model_artifacts/, metadata.json, model.tar.gz
PrepareModelArtifacts ==
    /\ prog = "notebook" /\ pc = "prepare"
    /\ nb' = [running |-> TRUE, flask |-> nb.flask, packaged |-> TRUE,
              package |-> [model |-> nb.flask.model, encoder |-> nb.flask.encoder,
                           scaler |-> nb.flask.scaler,
                           metadata |-> [name |-> "TrafficTelligence",
                                         framework |-> "scikit-learn"]],
              deployed |-> FALSE, requested |-> FALSE]
    /\ pc' = "upload"
    /\ UNCHANGED <<prog, df, X_train, X_test, model, fs, predictor, inputs, X,
                   raw, prediction, error, importance>>

\* "5. Upload Model" and "6. Create Online Deployment"
DeployModel ==
    /\ prog = "notebook" /\ pc = "upload"
    /\ nb' = [nb EXCEPT !.deployed = TRUE]
    /\ pc' = "test"
    /\ UNCHANGED <<prog, df, X_train, X_test, model, fs, predictor, inputs, X,
                   raw, prediction, error, importance>>

\* "7. Test Deployment": requests.post(scoring_url, json=payload, ...)
TestDeployment ==
    /\ prog = "notebook" /\ pc = "test"
    /\ nb' = [running |-> TRUE, flask |-> nb.flask, packaged |-> TRUE,
              package |-> nb.package, deployed |-> TRUE, requested |-> TRUE,
              request |-> Payload]
    /\ pc' = "done"
    /\ UNCHANGED <<prog, df, X_train, X_test, model, fs, predictor, inputs, X,
                   raw, prediction, error, importance>>

----------------------------------------------------------------------------
(* Specifications *)

Init == InitScript \/ InitNotebook

Next ==
    \/ ParseDates
    \/ FeatureEngineering
    \/ TrainTestSplit
    \/ ModelFit
    \/ Evaluate
    \/ Dump
    \/ PredictorInit
    \/ \E inp \in InputSpace : Predict(inp)
    \/ GetFeatureImportance
    \/ PrepareModelArtifacts
    \/ DeployModel
    \/ TestDeployment

Spec == Init /\ [][Next]_vars

\* the feature derivation alone, over every timestamp of Timestamps
InitDerive ==
    \E t \in Timestamps :
        ScriptState(<<Row("None", 2882, 0, 0, 40, "Clouds", t, 5545)>>)

NextDerive == ParseDates \/ FeatureEngineering

SpecDerive == InitDerive /\ [][NextDerive]_vars

----------------------------------------------------------------------------
(* Properties *)

\* the last call was predict and it returned
Predicted == prog = "script" /\ inputs # NoInput /\ error = NoError

\* C1: predict returns an integer >= 0 for every input record and every raw
\* regression output, negative ones included, after any sequence of calls.
C1_NonNegative == Predicted => prediction >= 0

C1_Witness == Predicted /\ raw < 0 /\ prediction = 0

\* C2 as claimed: predict returns max(0, round(v)), the raw output rounded to
\* the nearest integer and then clamped at zero.
C2_RoundedClamp == Predicted => prediction = Max(0, IntRound(raw))

\* C2 as amended: predict returns the raw output truncated (not rounded) and
\* clamped at zero: 0 for a negative output, otherwise the integer n with
\* n <= v < n + 1.
C2_TruncatedClamp ==
    Predicted =>
        IF raw < 0 THEN prediction = 0
        ELSE prediction * 100 <= raw /\ raw < (prediction + 1) * 100

C2_Witness == Predicted /\ raw > 0 /\ raw % 100 >= 50 /\ prediction * 100 < raw

\* days from 2012-01-01, a Sunday, to the date of ts
RECURSIVE DaysBeforeYear(_)
DaysBeforeYear(y) ==
    IF y <= 2012 THEN 0
    ELSE DaysBeforeYear(y - 1) + (IF IsLeap(y - 1) THEN 366 ELSE 365)
RECURSIVE DaysBeforeMonth(_, _)
DaysBeforeMonth(y, m) ==
    IF m <= 1 THEN 0 ELSE DaysBeforeMonth(y, m - 1) + DaysInMonth(y, m - 1)
DayNumber(ts) == DaysBeforeYear(ts.year) + DaysBeforeMonth(ts.year, ts.month) + ts.day - 1

BlockStart(categories, i) ==
    Len(numeric_features)
    + SumSeq([j \in 1..(i - 1) |-> Len(categories[categorical_features[j]])])
Block(categories, x, i) ==
    SubSeq(x, BlockStart(categories, i) + 1,
           BlockStart(categories, i) + Len(categories[categorical_features[i]]))
Seen(categories, inp, i) ==
    \E k \in 1..Len(categories[categorical_features[i]]) :
        categories[categorical_features[i]][k] = inp[categorical_features[i]]

\* C4: a record with a value unseen at fit time in a categorical field does
\* not make predict raise; that field's one-hot block is all zeros and the
\* other fields' blocks hold a single 1, at the category of the value.
C4_UnseenCategoryAllZero ==
    (prog = "script" /\ inputs # NoInput) =>
        /\ error = NoError
        /\ \A i \in 1..Len(categorical_features) :
            LET cats == predictor.model.preprocessor.categories_
                b == Block(cats, X, i)
            IN /\ Len(b) = Len(cats[categorical_features[i]])
               /\ \A k \in 1..Len(b) :
                    b[k] = (IF cats[categorical_features[i]][k]
                                = inputs[categorical_features[i]] THEN 1 ELSE 0)
               /\ ~Seen(cats, inputs, i) => \A k \in 1..Len(b) : b[k] = 0

C4_Witness ==
    /\ Predicted
    /\ \E i, j \in 1..Len(categorical_features) :
        /\ ~Seen(predictor.model.preprocessor.categories_, inputs, i)
        /\ Seen(predictor.model.preprocessor.categories_, inputs, j)

\* C5: once the artifact is fitted, persisted and loaded, no predict or
\* get_feature_importance call changes the fitted pipeline, the file or the
\* loaded pipeline, and the predictor stays ready.
C5_ArtifactFrozen ==
    [][/\ model.fitted => model' = model
       /\ fs[ModelPath].exists => fs' = fs
       /\ predictor.loaded => (predictor' = predictor /\ pc' = "serve")]_vars

C5_Witness ==
    /\ Predicted
    /\ predictor.model = model
    /\ fs[ModelPath].content = model
    /\ \E i \in 1..Len(categorical_features) :
        ~Seen(predictor.model.preprocessor.categories_, inputs, i)

\* C6 as claimed: an artifact whose preprocessing output width differs from
\* the regressor's n_features_in_ is rejected with ArtifactMismatch, by the
\* predictor that loaded it and by the notebook that packages it.
C6_MismatchRejected ==
    /\ (predictor.loaded
        /\ Len(AllFeatureNames(predictor.model))
            # predictor.model.regressor.n_features_in_)
        => error = "ArtifactMismatch"
    /\ (nb.running /\ nb.packaged
        /\ FlaskWidth(nb.package.encoder) # nb.package.model.n_features_in_)
        => error = "ArtifactMismatch"

\* position of a feature name in all_feature_names
NamePosition(m, name) ==
    CHOOSE p \in 1..Len(AllFeatureNames(m)) : AllFeatureNames(m)[p] = name

\* C7 as claimed: the ranked importances are in descending score order, with
\* equal scores in first-seen feature order (a stable sort).
C7_StableDescending ==
    (prog = "script" /\ importance # <<>>) =>
        \A i, j \in 1..Len(importance) :
            i < j =>
                \/ importance[i].score > importance[j].score
                \/ /\ importance[i].score = importance[j].score
                   /\ NamePosition(predictor.model, importance[i].name)
                        < NamePosition(predictor.model, importance[j].name)

\* C7 as amended: get_feature_importance takes no top_k; it returns the
\* min(10, n) highest-scoring (name, score) pairs in descending score order,
\* each feature at most once with its own score; the order among equal
\* scores is not fixed.
C7_TopTenDescending ==
    (prog = "script" /\ importance # <<>>) =>
        LET m == predictor.model
            names == AllFeatureNames(m)
            imps == m.regressor.feature_importances_
            k == Len(importance)
        IN /\ k = Min(10, Len(names))
           /\ \A i \in 1..k :
                /\ importance[i].name \in {names[p] : p \in 1..Len(names)}
                /\ importance[i].score = imps[NamePosition(m, importance[i].name)]
           /\ \A i, j \in 1..k :
                i < j => /\ importance[i].score >= importance[j].score
                         /\ importance[i].name # importance[j].name
           /\ \A p \in 1..Len(names) :
                (\A i \in 1..k : importance[i].name # names[p])
                    => imps[p] <= importance[k].score

C7_Witness ==
    /\ prog = "script" /\ importance # <<>>
    /\ Len(AllFeatureNames(predictor.model)) > 10
    /\ \E i, j \in 1..Len(importance) :
        /\ i < j
        /\ importance[i].score = importance[j].score
        /\ NamePosition(predictor.model, importance[i].name)
            > NamePosition(predictor.model, importance[j].name)

\* C8: the artifact file is written only after parsing, fitting and
\* evaluation succeeded; a run that aborts writes no file; the predictor is
\* loaded only from the written file.
C8_PersistAfterFit ==
    prog = "script" =>
        /\ fs[ModelPath].exists =>
            /\ model.fitted
            /\ fs[ModelPath].content = model
            /\ pc \in {"main", "serve", "crashed"}
            /\ ~predictor.loaded => error = NoError
            /\ \A i \in 1..Len(df) : df[i].date_time \in
                    [year : Int, month : 1..12, day : 1..31, hour : 0..23]
            /\ \A i \in 1..Len(X_train) : ~HasNaN(X_train[i])
            /\ \A i \in 1..Len(X_test) : ~HasNaN(X_test[i])
        /\ pc = "aborted" => (~fs[ModelPath].exists /\ error # NoError)
        /\ predictor.loaded =>
            (fs[ModelPath].exists /\ predictor.model = fs[ModelPath].content)

C8_Witness ==
    prog = "script" /\ pc = "aborted" /\ model.fitted /\ ~fs[ModelPath].exists

\* C9 as claimed: the fields sent to the scoring endpoint are the keys the
\* predictor accepts and the model was trained on, one value per field in
\* every row.
C9_SameFieldSet ==
    (nb.running /\ nb.requested) =>
        /\ {nb.request.fields[i] : i \in 1..Len(nb.request.fields)} = FeatureKeys
        /\ \A r \in 1..Len(nb.request.values) :
            Len(nb.request.values[r]) = Len(nb.request.fields)

\* C10: the prediction does not depend on is_weekend and is_rush_hour:
\* records that agree on the other eight keys get the same result.
C10_FlagsIgnored ==
    (prog = "script" /\ inputs # NoInput) =>
        \A w, r \in {0, 1} :
            LET other == PredictResult(predictor.model,
                            [inputs EXCEPT !.is_weekend = w, !.is_rush_hour = r])
            IN other.prediction = prediction /\ other.error = error

C10_Witness ==
    /\ Predicted
    /\ inputs.day_of_week = 2 /\ inputs.is_weekend = 1
    /\ inputs.is_rush_hour = 0
    /\ prediction > 0

====
